---- MODULE Spec2Model ----
(***************************************************************************)
(* Secure Notes API: the token codec, the identity resolver, the session   *)
(* issuer (signup / login / refresh) and the user-scoped note handlers,    *)
(* over a relational store holding the users and notes tables.             *)
(***************************************************************************)
EXTENDS Integers, Sequences, FiniteSets, TLC

(***************************************************************************)
(* Configuration (auth.py, schemas.py, security.py)                        *)
(***************************************************************************)
SECRET_KEY == "change_me"
ALGORITHM == "HS256"
ACCESS_TOKEN_EXPIRE_MINUTES == 30
REFRESH_TOKEN_EXPIRE_DAYS == 7
\* SignupRequest.password: Field(..., min_length=8)
MinPasswordLength == 8
\* the bcrypt scheme hashes the first 72 bytes of a password and no more
BcryptMaxBytes == 72

(***************************************************************************)
(* Bounds of the model                                                     *)
(***************************************************************************)
\* user rows ever inserted, counting signups that are in flight
MaxSignups == 2
\* token pairs kept in the history of issued tokens
MaxIssued == 2
\* the largest id a notes row is given
MaxNotes == 2

Emails == {"a@x.com", "b@x.com"}
Workers == {"w1", "w2"}
Titles == {"t", "u"}
Contents == {"c", "d"}

(***************************************************************************)
(* The clock, in milliseconds.  timedelta(minutes=m) and timedelta(days=d) *)
(* are whole numbers of seconds.                                           *)
(***************************************************************************)
minutes(m) == m * 60 * 1000
days(d) == d * 86400 * 1000
\* datetime.timestamp() cut to whole seconds by int(); timegm(utctimetuple())
timestamp(t) == t \div 1000

\* the instants the clock visits: half a second past the epoch second 0, then
\* at and one second after each expiry of a token issued in second 0
Instants ==
  { 500,
    minutes(ACCESS_TOKEN_EXPIRE_MINUTES),
    minutes(ACCESS_TOKEN_EXPIRE_MINUTES) + 1000,
    days(REFRESH_TOKEN_EXPIRE_DAYS),
    days(REFRESH_TOKEN_EXPIRE_DAYS) + 1000 }

(***************************************************************************)
(* Strings that the code inspects character by character are sequences of  *)
(* one-character strings.                                                  *)
(***************************************************************************)
DecimalDigits == <<"0", "1", "2", "3", "4", "5", "6", "7", "8", "9">>
\* a character str.isdigit() accepts and int() does not
SuperscriptTwo == "SUPERSCRIPT TWO"
IsDecimalChar(c) == \E i \in 1..10 : DecimalDigits[i] = c
DigitValue(c) == (CHOOSE i \in 1..10 : DecimalDigits[i] = c) - 1

\* str(n) for n >= 0
RECURSIVE str(_)
str(n) == IF n < 10 THEN <<DecimalDigits[n + 1]>>
          ELSE str(n \div 10) \o <<DecimalDigits[(n % 10) + 1]>>

\* str.isdigit(): non-empty and every character is a digit character
isdigit(s) == Len(s) > 0 /\ \A i \in 1..Len(s) : IsDecimalChar(s[i]) \/ s[i] = SuperscriptTwo

\* int(s) succeeds on decimal digits only
IntParses(s) == Len(s) > 0 /\ \A i \in 1..Len(s) : IsDecimalChar(s[i])
RECURSIVE int(_)
int(s) == IF Len(s) = 1 THEN DigitValue(s[1])
          ELSE 10 * int(SubSeq(s, 1, Len(s) - 1)) + DigitValue(s[Len(s)])

(***************************************************************************)
(* Passwords.  A password is <<first 72 bytes, bytes after the 72nd>>; the *)
(* first component names its content and Length gives its length.          *)
(***************************************************************************)
HeadLength(h) ==
  CASE h = "short7" -> 7 [] h = "pass8" -> 8 [] h = "nul8" -> 8 [] h = "long72" -> BcryptMaxBytes
TailLength(tl) == IF tl = "" THEN 0 ELSE 1
\* "nul8" is eight characters, one of them NUL
Passwords ==
  { <<"short7", "">>, <<"pass8", "">>, <<"nul8", "">>, <<"long72", "">>, <<"long72", "x">> }
Length(p) == HeadLength(p[1]) + TailLength(p[2])

(***************************************************************************)
(* security.py                                                             *)
(***************************************************************************)
\* what bcrypt digests: the password cut to BcryptMaxBytes
Truncate(p) == p[1]
BcryptDigest(salt, p) == <<salt, Truncate(p)>>
\* passlib's bcrypt handler raises for a password that holds a NUL, when it
\* hashes and when it verifies
NullPassword(p) == p[1] = "nul8"

\* hash_password: a salted bcrypt hash.  bcrypt draws 16 random bytes of salt
\* for each hash; the caller passes the salt, a value no earlier hash used
hash_password(password, salt) ==
  [salt |-> salt, scheme |-> "bcrypt", digest |-> BcryptDigest(salt, password)]

\* verify_password: "true", "false", or "raise" when passlib does not
\* recognise the stored string as a hash of the configured scheme
verify_password(plain_password, password_hash) ==
  IF password_hash.scheme # "bcrypt" THEN "raise"
  ELSE IF NullPassword(plain_password) THEN "raise"
  ELSE IF BcryptDigest(password_hash.salt, plain_password) = password_hash.digest
       THEN "true" ELSE "false"

(***************************************************************************)
(* auth.py: the token codec.  A token is the record of what its three      *)
(* parts carry: whether it parses at all, the key and algorithm of its     *)
(* signature, and its claims.  A claim that is absent has kind "absent".   *)
(***************************************************************************)
Str(chars) == [chars |-> chars, kind |-> "str"]
Absent == [chars |-> <<>>, kind |-> "absent"]
NotAString == [chars |-> <<>>, kind |-> "int"]

\* a codec that rounds the clock to the nearest second
_create_token_rounded(subject, token_type, expires_delta, t) ==
  [ wellformed |-> TRUE, key |-> SECRET_KEY, alg |-> ALGORITHM,
    sub |-> Str(subject), type |-> token_type,
    iat |-> timestamp(t + 500), exp |-> timestamp(t + 500 + expires_delta) ]

\* _create_token
_create_token(subject, token_type, expires_delta, t) ==
  [ wellformed |-> TRUE, key |-> SECRET_KEY, alg |-> ALGORITHM,
    sub |-> Str(subject), type |-> token_type,
    iat |-> timestamp(t), exp |-> timestamp(t + expires_delta) ]

create_access_token(user_id, t) ==
  _create_token(str(user_id), "access", minutes(ACCESS_TOKEN_EXPIRE_MINUTES), t)

create_refresh_token(user_id, t) ==
  _create_token(str(user_id), "refresh", days(REFRESH_TOKEN_EXPIRE_DAYS), t)

\* jose.jwt.decode(token, SECRET_KEY, algorithms=[ALGORITHM]) raises JWTError
\* for a token that does not parse, whose algorithm is not allowed, whose
\* signature does not verify, whose exp is before the current second, or whose
\* sub is present and not a string
ExpiredSignature(token, t) == token.exp < timestamp(t)
\* a decoder that does not verify the signature
JWTErrorUnverified(token, t) ==
  \/ ~token.wellformed
  \/ token.alg # ALGORITHM
  \/ ExpiredSignature(token, t)
  \/ token.sub.kind = "int"
JWTError(token, t) ==
  \/ ~token.wellformed
  \/ token.alg # ALGORITHM
  \/ token.key # SECRET_KEY
  \/ ExpiredSignature(token, t)
  \/ token.sub.kind = "int"

HTTPException(status_code, detail) == [detail |-> detail, status |-> status_code]
\* an exception no handler catches: Starlette answers 500
ServerError == [detail |-> "Internal Server Error", status |-> 500]
OK(status_code) == [detail |-> "", status |-> status_code]

\* _decode_token: the payload, or 401 "Invalid token"
_decode_token(token, t) ==
  IF JWTError(token, t)
  THEN [err |-> {HTTPException(401, "Invalid token")}, payload |-> token]
  ELSE [err |-> {}, payload |-> token]

\* `not sub or not sub.isdigit()`
BadSubject(sub) == sub.kind = "absent" \/ sub.chars = <<>> \/ ~isdigit(sub.chars)

\* a verifier that takes a refresh token in the second of its issue only
verify_refresh_token_once(refresh_token, t) ==
  LET d == _decode_token(refresh_token, t) IN
  IF d.err # {} THEN [user_id |-> 0, err |-> d.err]
  ELSE IF d.payload.type # "refresh" \/ d.payload.iat < timestamp(t)
  THEN [user_id |-> 0, err |-> {HTTPException(401, "Invalid refresh token")}]
  ELSE IF BadSubject(d.payload.sub)
  THEN [user_id |-> 0, err |-> {HTTPException(401, "Invalid refresh token")}]
  ELSE [user_id |-> int(d.payload.sub.chars), err |-> {}]

\* verify_refresh_token: [err, user_id]; err holds the response of a failure
verify_refresh_token(refresh_token, t) ==
  LET d == _decode_token(refresh_token, t) IN
  IF d.err # {} THEN [user_id |-> 0, err |-> d.err]
  ELSE IF d.payload.type # "refresh"
  THEN [user_id |-> 0, err |-> {HTTPException(401, "Invalid refresh token")}]
  ELSE IF BadSubject(d.payload.sub)
  THEN [user_id |-> 0, err |-> {HTTPException(401, "Invalid refresh token")}]
  ELSE IF ~IntParses(d.payload.sub.chars)
  THEN [user_id |-> 0, err |-> {ServerError}]
  ELSE [user_id |-> int(d.payload.sub.chars), err |-> {}]

\* db.get(User, id), db.get(Note, id): the rows with that primary key
db_get(table, id) == {r \in table : r.id = id}

\* a resolver that does not look at the type claim
get_current_user_any_type(token, U, t) ==
  LET d == _decode_token(token, t) IN
  IF d.err # {} THEN [err |-> d.err, user |-> {}]
  ELSE IF BadSubject(d.payload.sub) \/ ~IntParses(d.payload.sub.chars)
  THEN [err |-> {HTTPException(401, "Invalid access token")}, user |-> {}]
  ELSE LET user == db_get(U, int(d.payload.sub.chars)) IN
       IF user = {}
       THEN [err |-> {HTTPException(401, "User not found")}, user |-> {}]
       ELSE [err |-> {}, user |-> user]

\* get_current_user: [err, user]; user holds the resolved row
get_current_user(token, U, t) ==
  LET d == _decode_token(token, t) IN
  IF d.err # {} THEN [err |-> d.err, user |-> {}]
  ELSE IF d.payload.type # "access"
  THEN [err |-> {HTTPException(401, "Invalid access token")}, user |-> {}]
  ELSE IF BadSubject(d.payload.sub)
  THEN [err |-> {HTTPException(401, "Invalid access token")}, user |-> {}]
  ELSE IF ~IntParses(d.payload.sub.chars)
  THEN [err |-> {ServerError}, user |-> {}]
  ELSE LET user == db_get(U, int(d.payload.sub.chars)) IN
       IF user = {}
       THEN [err |-> {HTTPException(401, "User not found")}, user |-> {}]
       ELSE [err |-> {}, user |-> user]

(***************************************************************************)
(* models.py: the store.  A users row is [id, email, password_hash] and a  *)
(* notes row is [id, user_id, title, content].  Two history fields are     *)
(* kept beside them: uid, the serial number of the insert that made the    *)
(* users row, and creator, the uid of the user who created the note; and   *)
(* plain, the password the users row was signed up with.                   *)
(***************************************************************************)
Max(S) == CHOOSE m \in S : \A x \in S : x <= m
\* Integer primary key of the default SQLite store: one more than the
\* largest id in the table
NextId(table) == IF table = {} THEN 1 ELSE Max({r.id : r \in table}) + 1

\* select(User).where(User.email == email)
ByEmail(U, email) == {u \in U : u.email = email}
\* users.email without its unique index
NoUniqueIndex(U, email) == FALSE
\* the unique index on users.email
UniqueViolation(U, email) == ByEmail(U, email) # {}

Null == "<null>"

(***************************************************************************)
(* api/auth_routes.py                                                      *)
(***************************************************************************)
TokenResponse(user_id, t) ==
  [ token_type |-> "bearer",
    refresh_token |-> create_refresh_token(user_id, t),
    access_token |-> create_access_token(user_id, t) ]

\* signup, first statement: the lookup by email
signup_lookup(payload, U) ==
  IF Length(payload.password) < MinPasswordLength
  THEN {HTTPException(422, "Validation")}
  ELSE IF ByEmail(U, payload.email) # {}
  THEN {HTTPException(409, "Email already registered")}
  ELSE {}

\* signup, db.add and db.commit: the insert under the unique index
signup_insert(payload, salt, serial, U) ==
  IF NullPassword(payload.password) THEN [resp |-> ServerError, users |-> U]
  ELSE IF UniqueViolation(U, payload.email)
  THEN [resp |-> ServerError, users |-> U]
  ELSE [resp |-> OK(201),
        users |-> U \cup {[ password_hash |-> hash_password(payload.password, salt),
                            id |-> NextId(U), email |-> payload.email,
                            uid |-> serial, plain |-> payload.password ]}]

\* login: [resp, body, user]
login(payload, U, t) ==
  LET user == ByEmail(U, payload.email) IN
  IF user = {}
  THEN [user |-> {}, resp |-> HTTPException(401, "Invalid credentials"), body |-> {}]
  ELSE LET u == CHOOSE x \in user : TRUE
           v == verify_password(payload.password, u.password_hash) IN
       IF v = "raise" THEN [user |-> {}, resp |-> ServerError, body |-> {}]
       ELSE IF v = "false"
       THEN [user |-> {}, resp |-> HTTPException(401, "Invalid credentials"), body |-> {}]
       ELSE [user |-> user, resp |-> OK(200), body |-> {TokenResponse(u.id, t)}]

\* refresh: [resp, body, user]
refresh(refresh_token, U, t) ==
  LET v == verify_refresh_token(refresh_token, t) IN
  IF v.err # {}
  THEN [user |-> {}, resp |-> CHOOSE e \in v.err : TRUE, body |-> {}]
  ELSE LET user == db_get(U, v.user_id) IN
       IF user = {}
       THEN [user |-> {}, resp |-> HTTPException(401, "User not found"), body |-> {}]
       ELSE LET u == CHOOSE x \in user : TRUE IN
            [user |-> user, resp |-> OK(200), body |-> {TokenResponse(u.id, t)}]

(***************************************************************************)
(* api/notes_routes.py.  Every handler first resolves the user through     *)
(* get_current_user.  A handler's result is [resp, body, notes]: the       *)
(* response, the rows returned and the notes table it leaves.              *)
(***************************************************************************)
Lower(s) == CASE s = "T" -> "t" [] s = "C" -> "c" [] OTHER -> s
\* text ILIKE '%q%' over one-character texts
ILike(text, q) == Lower(text) = Lower(q)

\* the rows list_notes selects before limit and offset
list_notes(q, token, U, N, t) ==
  LET r == get_current_user(token, U, t) IN
  IF r.err # {} THEN [resp |-> CHOOSE e \in r.err : TRUE, body |-> {}, notes |-> N]
  ELSE LET user == CHOOSE x \in r.user : TRUE
           mine == {n \in N : n.user_id = user.id}
           rows == IF q = Null \/ q = "" THEN mine
                   ELSE {n \in mine : ILike(n.title, q) \/ ILike(n.content, q)} IN
       [resp |-> OK(200), body |-> rows, notes |-> N]

\* the pages limit and offset can cut from the selected rows; updated_at is
\* not modelled, so every order of the rows is admitted
Pages(rows, limit, offset) ==
  LET k == IF Cardinality(rows) - offset < 0 THEN 0 ELSE Cardinality(rows) - offset
      size == IF limit < k THEN limit ELSE k IN
  {page \in SUBSET rows : Cardinality(page) = size}

create_note(payload, token, U, N, t) ==
  LET r == get_current_user(token, U, t) IN
  IF r.err # {} THEN [resp |-> CHOOSE e \in r.err : TRUE, body |-> {}, notes |-> N]
  ELSE LET user == CHOOSE x \in r.user : TRUE
           note == [ user_id |-> user.id, id |-> NextId(N), title |-> payload.title,
                     content |-> payload.content, creator |-> user.uid ] IN
       [resp |-> OK(201), body |-> {note}, notes |-> N \cup {note}]

\* a check that finds a note of any owner
NotFoundIfAbsent(note, user) == note = {}
\* `not note or note.user_id != user.id`
NotFound(note, user) == note = {} \/ \A n \in note : n.user_id # user.id

get_note(note_id, token, U, N, t) ==
  LET r == get_current_user(token, U, t) IN
  IF r.err # {} THEN [resp |-> CHOOSE e \in r.err : TRUE, body |-> {}, notes |-> N]
  ELSE LET user == CHOOSE x \in r.user : TRUE
           note == db_get(N, note_id) IN
       IF NotFound(note, user)
       THEN [resp |-> HTTPException(404, "Note not found"), body |-> {}, notes |-> N]
       ELSE [resp |-> OK(200), body |-> note, notes |-> N]

\* an update that writes the payload's fields as they come, null or not
update_note_overwrite(note_id, payload, token, U, N, t) ==
  LET r == get_current_user(token, U, t) IN
  IF r.err # {} THEN [resp |-> CHOOSE e \in r.err : TRUE, body |-> {}, notes |-> N]
  ELSE LET user == CHOOSE x \in r.user : TRUE
           note == db_get(N, note_id) IN
       IF NotFound(note, user)
       THEN [resp |-> HTTPException(404, "Note not found"), body |-> {}, notes |-> N]
       ELSE LET old == CHOOSE n \in note : TRUE
                new == [old EXCEPT !.title = payload.title, !.content = payload.content] IN
            [resp |-> OK(200), body |-> {new}, notes |-> (N \ {old}) \cup {new}]

update_note(note_id, payload, token, U, N, t) ==
  LET r == get_current_user(token, U, t) IN
  IF r.err # {} THEN [resp |-> CHOOSE e \in r.err : TRUE, body |-> {}, notes |-> N]
  ELSE LET user == CHOOSE x \in r.user : TRUE
           note == db_get(N, note_id) IN
       IF NotFound(note, user)
       THEN [resp |-> HTTPException(404, "Note not found"), body |-> {}, notes |-> N]
       ELSE LET old == CHOOSE n \in note : TRUE
                new == [old EXCEPT
                          !.title = IF payload.title # Null THEN payload.title ELSE @,
                          !.content = IF payload.content # Null THEN payload.content ELSE @] IN
            [resp |-> OK(200), body |-> {new}, notes |-> (N \ {old}) \cup {new}]

delete_note(note_id, token, U, N, t) ==
  LET r == get_current_user(token, U, t) IN
  IF r.err # {} THEN [resp |-> CHOOSE e \in r.err : TRUE, body |-> {}, notes |-> N]
  ELSE LET user == CHOOSE x \in r.user : TRUE
           note == db_get(N, note_id) IN
       IF NotFound(note, user)
       THEN [resp |-> HTTPException(404, "Note not found"), body |-> {}, notes |-> N]
       ELSE [resp |-> OK(204), body |-> {}, notes |-> N \ note]

(***************************************************************************)
(* db.py: get_db, the session of a request.  The set is of the workers     *)
(* whose request holds a session that has been opened and not closed.      *)
(***************************************************************************)
\* a response that stands for a raised exception
Raised(resp) == resp.status >= 400

\* get_db up to its yield: db = SessionLocal()
SessionLocal(S, w) == S \cup {w}

\* a get_db that closes after the handler has returned and not when it raised
get_db_on_return(S, w, raised) == IF raised THEN S ELSE S \ {w}

\* get_db after its yield: the finally clause, reached when the handler
\* returns and when it raises
get_db_finally(S, w, raised) == S \ {w}

(***************************************************************************)
(* State                                                                   *)
(***************************************************************************)
VARIABLES
  users,    \* the users table
  notes,    \* the notes table
  now,      \* the wall clock, in milliseconds
  inflight, \* per worker: the signup payload between its lookup and its insert
  created,  \* history: the number of users rows inserted so far
  issued,   \* history: the token pairs handed out, each with the uid it was issued to
  sessions, \* the workers whose request holds a store session that is not closed
  requests  \* per worker: where its request stands, and the status it ended with

vars == <<users, notes, now, inflight, created, issued, sessions, requests>>

IssuedTokens == UNION {{e.tokens.access_token, e.tokens.refresh_token} : e \in issued}

\* tokens nobody was issued: one that does not parse, one signed with another
\* key, one that names no signature algorithm
Garbage ==
  [ wellformed |-> FALSE, key |-> "", alg |-> "", sub |-> Absent, type |-> "",
    iat |-> 0, exp |-> 0 ]
ForgedTokens ==
  { Garbage,
    [create_access_token(1, days(REFRESH_TOKEN_EXPIRE_DAYS)) EXCEPT !.key = "guessed"],
    [create_refresh_token(1, days(REFRESH_TOKEN_EXPIRE_DAYS)) EXCEPT !.alg = "none"] }

\* what a client can put in the Authorization header or the refresh body
ClientTokens == IssuedTokens \cup ForgedTokens

\* what the clients of the note handlers put in the Authorization header: the
\* access token of a login, or a string that is no token
BearerTokens == {e.tokens.access_token : e \in issued} \cup {Garbage}

SignupPayloads == [password : Passwords, email : Emails]
LoginPayloads == [password : Passwords, email : Emails]
UpdatePayloads == [title : Titles \cup {Null}, content : Contents \cup {Null}]
\* the payloads the note requests of NextNotes carry
CreateInputs == {[title |-> "t", content |-> "c"]}
UpdateInputs == {[title |-> "u", content |-> Null]}
ListInputs == {<<Null, 100, 0>>, <<"T", 1, 1>>}
NoteIds == 1..MaxNotes
Queries == {Null, "", "T", "d"}

Init ==
  /\ users = {}
  /\ notes = {}
  /\ now = 500
  /\ inflight = [w \in Workers |-> {}]
  /\ created = 0
  /\ issued = {}
  /\ sessions = {}
  /\ requests = [w \in Workers |-> [status |-> 0, pc |-> "idle"]]

\* time passes
Tick ==
  /\ \E t \in Instants : t > now /\ now' = t
  /\ UNCHANGED <<users, notes, inflight, created, issued, sessions, requests>>

\* POST /auth/signup up to the lookup: validation, then the select by email
SignupLookup(w, payload) ==
  LET err == signup_lookup(payload, users) IN
  /\ inflight[w] = {}
  /\ IF err # {}
     THEN /\ UNCHANGED inflight
          /\ sessions' = get_db_finally(SessionLocal(sessions, w), w, TRUE)
     ELSE /\ created + Cardinality({v \in Workers : inflight[v] # {}}) < MaxSignups
          /\ inflight' = [inflight EXCEPT ![w] = {payload}]
          /\ sessions' = SessionLocal(sessions, w)
  /\ UNCHANGED <<users, notes, now, created, issued, requests>>

\* POST /auth/signup from hash_password to the response
SignupInsert(w) ==
  /\ inflight[w] # {}
  /\ LET payload == CHOOSE x \in inflight[w] : TRUE
         r == signup_insert(payload, created + 1, created + 1, users) IN
     /\ users' = r.users
     /\ created' = IF r.resp.status = 201 THEN created + 1 ELSE created
     /\ sessions' = get_db_finally(sessions, w, Raised(r.resp))
  /\ inflight' = [inflight EXCEPT ![w] = {}]
  /\ UNCHANGED <<notes, now, issued, requests>>

\* the history of issued tokens after a response
Issue(r) == issued \cup {[uid |-> u.uid, tokens |-> b] : u \in r.user, b \in r.body}

\* a login that stores a fresh hash of the password it has verified
LoginRehash(payload) ==
  LET r == login(payload, users, now) IN
  /\ Cardinality(Issue(r)) <= MaxIssued
  /\ issued' = Issue(r)
  /\ users' = (users \ r.user)
                 \cup {[u EXCEPT !.password_hash = hash_password(u.plain, 0)] : u \in r.user}
  /\ UNCHANGED <<notes, now, inflight, created, sessions, requests>>

\* POST /auth/login
Login(payload) ==
  LET r == login(payload, users, now) IN
  /\ Cardinality(Issue(r)) <= MaxIssued
  /\ issued' = Issue(r)
  /\ UNCHANGED <<users, notes, now, inflight, created, sessions, requests>>

\* POST /auth/refresh
Refresh(token) ==
  LET r == refresh(token, users, now) IN
  /\ Cardinality(Issue(r)) <= MaxIssued
  /\ issued' = Issue(r)
  /\ UNCHANGED <<users, notes, now, inflight, created, sessions, requests>>

\* GET /notes
ListNotes(q, limit, offset, token) ==
  LET r == list_notes(q, token, users, notes, now) IN
  /\ \E page \in Pages(r.body, limit, offset) : page \subseteq r.body
  /\ notes' = r.notes
  /\ UNCHANGED <<users, now, inflight, created, issued, sessions, requests>>

\* POST /notes
CreateNote(payload, token) ==
  LET r == create_note(payload, token, users, notes, now) IN
  /\ \A n \in r.notes : n.id <= MaxNotes
  /\ notes' = r.notes
  /\ UNCHANGED <<users, now, inflight, created, issued, sessions, requests>>

\* GET /notes/{note_id}
GetNote(note_id, token) ==
  LET r == get_note(note_id, token, users, notes, now) IN
  /\ notes' = r.notes
  /\ UNCHANGED <<users, now, inflight, created, issued, sessions, requests>>

\* PUT /notes/{note_id}
UpdateNote(note_id, payload, token) ==
  LET r == update_note(note_id, payload, token, users, notes, now) IN
  /\ notes' = r.notes
  /\ UNCHANGED <<users, now, inflight, created, issued, sessions, requests>>

\* DELETE /notes/{note_id}
DeleteNote(note_id, token) ==
  LET r == delete_note(note_id, token, users, notes, now) IN
  /\ notes' = r.notes
  /\ UNCHANGED <<users, now, inflight, created, issued, sessions, requests>>

\* A users row is deleted by an administrator, outside the API.  The notes of
\* the user go with it where the store enforces notes.user_id's ON DELETE
\* CASCADE; the default SQLite engine is opened without foreign-key
\* enforcement, and there they stay.
AdminDeleteUser(user, foreign_keys) ==
  /\ user \in users
  /\ users' = users \ {user}
  /\ notes' = IF foreign_keys THEN {n \in notes : n.user_id # user.id} ELSE notes
  /\ UNCHANGED <<now, inflight, created, issued, sessions, requests>>

\* what the password_hash column holds when it holds no bcrypt hash; the
\* column is a String(255) and takes any string
MalformedHash == [salt |-> 0, scheme |-> "", digest |-> <<>>]

\* A users row whose password_hash was written outside the API, by an import
\* or by hand, and is not a hash passlib recognises.
AdminSetHash(user, password_hash) ==
  /\ user \in users
  /\ users' = (users \ {user}) \cup {[user EXCEPT !.password_hash = password_hash]}
  /\ UNCHANGED <<notes, now, inflight, created, issued, sessions, requests>>

\* A request followed through get_db step by step: the dependency runs to
\* its yield, the handler runs with the session, and the generator is resumed
\* when the handler has returned or raised.
GetDbYield(w) ==
  /\ requests[w].pc = "idle"
  /\ inflight[w] = {}
  /\ sessions' = SessionLocal(sessions, w)
  /\ requests' = [requests EXCEPT ![w] = [status |-> 0, pc |-> "yield"]]
  /\ UNCHANGED <<users, notes, now, inflight, created, issued>>

\* the handler of POST /auth/signup, with no other request between its
\* statements
ServeSignup(w, payload) ==
  LET err == signup_lookup(payload, users)
      r == signup_insert(payload, created + 1, created + 1, users)
      resp == IF err # {} THEN CHOOSE e \in err : TRUE ELSE r.resp IN
  /\ requests[w].pc = "yield"
  /\ err = {} => created < MaxSignups
  /\ users' = IF err # {} THEN users ELSE r.users
  /\ created' = IF resp.status = 201 THEN created + 1 ELSE created
  /\ requests' = [requests EXCEPT ![w] = [status |-> resp.status, pc |-> "finally"]]
  /\ UNCHANGED <<notes, now, inflight, issued, sessions>>

\* the handler of POST /auth/login
ServeLogin(w, payload) ==
  LET r == login(payload, users, now) IN
  /\ requests[w].pc = "yield"
  /\ Cardinality(Issue(r)) <= MaxIssued
  /\ issued' = Issue(r)
  /\ requests' = [requests EXCEPT ![w] = [status |-> r.resp.status, pc |-> "finally"]]
  /\ UNCHANGED <<users, notes, now, inflight, created, sessions>>

\* the handler of GET /notes/{note_id}, after get_current_user
ServeGetNote(w, note_id, token) ==
  LET r == get_note(note_id, token, users, notes, now) IN
  /\ requests[w].pc = "yield"
  /\ notes' = r.notes
  /\ requests' = [requests EXCEPT ![w] = [status |-> r.resp.status, pc |-> "finally"]]
  /\ UNCHANGED <<users, now, inflight, created, issued, sessions>>

\* get_db resumed after its yield, and the response sent
GetDbFinally(w) ==
  /\ requests[w].pc = "finally"
  /\ sessions' = get_db_finally(sessions, w, Raised(requests[w]))
  /\ requests' = [requests EXCEPT ![w].pc = "idle"]
  /\ UNCHANGED <<users, notes, now, inflight, created, issued>>

\* the API served by one worker, without the note handlers that write
Next ==
  \/ Tick
  \/ \E email \in Emails, password \in {<<"short7", "">>, <<"pass8", "">>, <<"long72", "x">>} :
       SignupLookup("w1", [password |-> password, email |-> email])
  \/ SignupInsert("w1")
  \/ \E payload \in LoginPayloads : Login(payload)
  \/ \E token \in ClientTokens : Refresh(token)
  \/ \E token \in ClientTokens : ListNotes(Null, 100, 0, token)
  \/ \E user \in users, foreign_keys \in BOOLEAN : AdminDeleteUser(user, foreign_keys)

Spec == Init /\ [][Next]_vars

\* signups served by concurrent workers
NextSignup ==
  \/ \E w \in Workers, payload \in SignupPayloads : SignupLookup(w, payload)
  \/ \E w \in Workers : SignupInsert(w)
  \/ \E payload \in LoginPayloads : Login(payload)
  \/ \E user \in users, foreign_keys \in BOOLEAN : AdminDeleteUser(user, foreign_keys)

SpecSignup == Init /\ [][NextSignup]_vars

\* the note handlers, at one instant
NextNotes ==
  \/ \E email \in Emails : SignupLookup("w1", [password |-> <<"pass8", "">>, email |-> email])
  \/ SignupInsert("w1")
  \/ \E email \in Emails : Login([password |-> <<"pass8", "">>, email |-> email])
  \/ \E in \in ListInputs, token \in BearerTokens : ListNotes(in[1], in[2], in[3], token)
  \/ \E payload \in CreateInputs, token \in BearerTokens : CreateNote(payload, token)
  \/ \E note_id \in NoteIds, token \in BearerTokens : GetNote(note_id, token)
  \/ \E note_id \in NoteIds, payload \in UpdateInputs, token \in BearerTokens :
       UpdateNote(note_id, payload, token)
  \/ \E note_id \in NoteIds, token \in BearerTokens : DeleteNote(note_id, token)
  \/ \E user \in users, foreign_keys \in BOOLEAN : AdminDeleteUser(user, foreign_keys)

SpecNotes == Init /\ [][NextNotes]_vars

\* login over a store whose rows were not all written by signup
NextStore ==
  \/ \E email \in Emails, password \in {<<"pass8", "">>, <<"long72", "x">>} :
       SignupLookup("w1", [password |-> password, email |-> email])
  \/ SignupInsert("w1")
  \/ \E payload \in LoginPayloads : Login(payload)
  \/ \E user \in users : AdminSetHash(user, MalformedHash)
  \/ \E user \in users, foreign_keys \in BOOLEAN : AdminDeleteUser(user, foreign_keys)

SpecStore == Init /\ [][NextStore]_vars

\* requests of two workers, each followed through its session
NextSession ==
  \/ \E w \in Workers : GetDbYield(w)
  \/ \E w \in Workers, email \in Emails,
        password \in {<<"short7", "">>, <<"pass8", "">>, <<"nul8", "">>} :
       ServeSignup(w, [password |-> password, email |-> email])
  \/ \E w \in Workers, email \in Emails, password \in {<<"pass8", "">>, <<"long72", "">>} :
       ServeLogin(w, [password |-> password, email |-> email])
  \/ \E w \in Workers, token \in BearerTokens : ServeGetNote(w, 1, token)
  \/ \E w \in Workers : GetDbFinally(w)

SpecSession == Init /\ [][NextSession]_vars

(***************************************************************************)
(* Tokens the properties range over: the issued ones, copies of them with  *)
(* the signature of another key, the forged ones, and tokens of every      *)
(* shape of claims signed with the key.                                    *)
(***************************************************************************)
Subjects ==
  { Str(str(1)), Str(str(2)), Str(str(3)), Absent, NotAString, Str(<<>>),
    Str(<<"-", "1">>), Str(<<"a">>), Str(<<SuperscriptTwo>>) }
CraftedTokens ==
  [ wellformed : {TRUE}, key : {SECRET_KEY}, alg : {ALGORITHM},
    sub : Subjects, type : {"access", "refresh", ""}, iat : {0},
    exp : {timestamp(days(REFRESH_TOKEN_EXPIRE_DAYS))} ]
Resigned(token) == [token EXCEPT !.key = "guessed"]
AllTokens ==
  IssuedTokens \cup {Resigned(token) : token \in IssuedTokens}
    \cup ForgedTokens \cup CraftedTokens

Unauthorized(resp) == resp.status = 401
\* the users row a history entry was issued to, if it is still in the table
Holder(e) == {u \in users : u.uid = e.uid}
\* before the token's expiry, as the clock shows it
Unexpired(token, t) == t < token.exp * 1000

(***************************************************************************)
(* C1.  As claimed: a note created with the access token of one user is    *)
(* never among the rows list_notes selects for a valid access token of     *)
(* another user, and get_note, update_note and delete_note with that token *)
(* and the note's id answer 404 and leave the notes table as it is.        *)
(***************************************************************************)
CrossUserIsolation ==
  \A n \in notes : \A B \in users : \A token \in IssuedTokens :
    (B.uid # n.creator /\ get_current_user(token, users, now).user = {B}) =>
      /\ \A q \in Queries : n \notin list_notes(q, token, users, notes, now).body
      /\ get_note(n.id, token, users, notes, now).resp.status = 404
      /\ \A payload \in UpdatePayloads :
           /\ update_note(n.id, payload, token, users, notes, now).resp.status = 404
           /\ update_note(n.id, payload, token, users, notes, now).notes = notes
      /\ delete_note(n.id, token, users, notes, now).resp.status = 404
      /\ delete_note(n.id, token, users, notes, now).notes = notes

(***************************************************************************)
(* C2.  A token whose type claim is not "access" never resolves to a user: *)
(* get_current_user answers 401, also when the token is signed with the    *)
(* key, unexpired and names an existing user, as every issued refresh      *)
(* token is.  A token whose type claim is not "refresh" is answered 401 by *)
(* verify_refresh_token and by refresh, which issues nothing for it.       *)
(***************************************************************************)
TokenKindSeparation ==
  \A token \in AllTokens :
    /\ token.type # "access" =>
         LET r == get_current_user(token, users, now) IN
         /\ r.user = {}
         /\ r.err # {}
         /\ \A e \in r.err : Unauthorized(e)
    /\ token.type # "refresh" =>
         LET v == verify_refresh_token(token, now)
             r == refresh(token, users, now) IN
         /\ v.err # {}
         /\ \A e \in v.err : Unauthorized(e)
         /\ Unauthorized(r.resp)
         /\ r.body = {}

\* a user holds an unexpired pair; the resolver refuses the refresh token for
\* its kind and refresh refuses the access token for its kind
TokenKindSeparationWitness ==
  \E e \in issued :
    /\ Holder(e) # {}
    /\ Unexpired(e.tokens.access_token, now)
    /\ get_current_user(e.tokens.access_token, users, now).user = Holder(e)
    /\ get_current_user(e.tokens.refresh_token, users, now).err
         = {HTTPException(401, "Invalid access token")}
    /\ refresh(e.tokens.refresh_token, users, now).resp.status = 200
    /\ refresh(e.tokens.access_token, users, now).resp
         = HTTPException(401, "Invalid refresh token")

(***************************************************************************)
(* C3.  As claimed: an issued token is accepted only while its exp is      *)
(* after the time of verification; at every instant from its exp on, the   *)
(* resolver and refresh answer 401 to it.                                  *)
(***************************************************************************)
RejectedFromExpiryOn ==
  \A e \in issued :
    /\ now >= e.tokens.access_token.exp * 1000 =>
         /\ get_current_user(e.tokens.access_token, users, now).user = {}
         /\ \A x \in get_current_user(e.tokens.access_token, users, now).err : Unauthorized(x)
    /\ now >= e.tokens.refresh_token.exp * 1000 =>
         /\ Unauthorized(refresh(e.tokens.refresh_token, users, now).resp)
         /\ refresh(e.tokens.refresh_token, users, now).body = {}

(***************************************************************************)
(* C4.  The users table never holds two rows with one email, however the   *)
(* lookups and inserts of concurrent signups interleave; a signup whose    *)
(* email was registered by another request after its lookup adds no row.   *)
(***************************************************************************)
EmailUnique ==
  /\ \A u1 \in users, u2 \in users : u1.email = u2.email => u1 = u2
  /\ \A w \in Workers : \A payload \in inflight[w] :
       ByEmail(users, payload.email) # {} =>
         signup_insert(payload, created + 1, created + 1, users).users = users

\* both workers passed the lookup for one email, one of them has inserted its
\* row and the other is about to insert
EmailUniqueWitness ==
  \E w \in Workers : \E payload \in inflight[w] :
    /\ Cardinality(ByEmail(users, payload.email)) = 1
    /\ ~NullPassword(payload.password)
    /\ signup_insert(payload, created + 1, created + 1, users).resp.status # 201

(***************************************************************************)
(* C5.  As claimed: a signup whose email is registered when it inserts is  *)
(* answered 409 Conflict and leaves the users table as it is, whether the  *)
(* lookup finds the row or a concurrent signup commits it after the lookup.*)
(***************************************************************************)
DuplicateSignupConflict ==
  /\ \A payload \in SignupPayloads :
       (Length(payload.password) >= MinPasswordLength /\ ByEmail(users, payload.email) # {})
         => signup_lookup(payload, users) = {HTTPException(409, "Email already registered")}
  /\ \A w \in Workers : \A payload \in inflight[w] :
       (~NullPassword(payload.password) /\ ByEmail(users, payload.email) # {}) =>
         /\ signup_insert(payload, created + 1, created + 1, users).resp.status = 409
         /\ signup_insert(payload, created + 1, created + 1, users).users = users

(***************************************************************************)
(* C10.  A token signed with another key, a token that names another       *)
(* algorithm and a token that does not parse are answered 401 "Invalid     *)
(* token" by get_current_user and by refresh, and so is a token the codec  *)
(* finds expired: the response to a forged token is the response to an     *)
(* expired one.                                                            *)
(***************************************************************************)
InvalidToken == HTTPException(401, "Invalid token")
ForgedOrMalformed(token) ==
  ~token.wellformed \/ token.key # SECRET_KEY \/ token.alg # ALGORITHM

ForgedAndExpiredAlike ==
  \A token \in AllTokens :
    (ForgedOrMalformed(token) \/ ExpiredSignature(token, now)) =>
      /\ get_current_user(token, users, now).err = {InvalidToken}
      /\ get_current_user(token, users, now).user = {}
      /\ refresh(token, users, now).resp = InvalidToken
      /\ refresh(token, users, now).body = {}

\* a user holds a pair whose refresh token is still accepted and whose access
\* token has expired: the expired token and a copy of the good one signed
\* with another key get the same answer
ForgedAndExpiredAlikeWitness ==
  \E e \in issued :
    /\ Holder(e) # {}
    /\ refresh(e.tokens.refresh_token, users, now).resp.status = 200
    /\ ExpiredSignature(e.tokens.access_token, now)
    /\ get_current_user(e.tokens.access_token, users, now).err = {InvalidToken}
    /\ refresh(Resigned(e.tokens.refresh_token), users, now).resp = InvalidToken
    /\ get_current_user(Garbage, users, now).err = {InvalidToken}

(***************************************************************************)
(* C6.  As claimed: a signup with a valid email and password whose email   *)
(* is not registered succeeds; login with the same credentials then        *)
(* returns a token pair, and at every instant before the access token's    *)
(* expiry get_current_user resolves it to the row that signup created, the *)
(* one with the signup's email.                                            *)
(***************************************************************************)
RoundTripFrom(payload, U, t0) ==
  LET serial == created + 1
      s == signup_insert(payload, serial, serial, U)
      row == {u \in s.users : u.uid = serial}
      l == login(payload, s.users, t0) IN
  /\ s.resp.status = 201
  /\ Cardinality(row) = 1
  /\ \A u \in row : u.email = payload.email /\ u.id = NextId(U)
  /\ l.resp.status = 200
  /\ Cardinality(l.body) = 1
  /\ \A b \in l.body :
       /\ b.refresh_token.type = "refresh"
       /\ \A t \in Instants :
            (t >= t0 /\ Unexpired(b.access_token, t)) =>
              /\ get_current_user(b.access_token, s.users, t).err = {}
              /\ get_current_user(b.access_token, s.users, t).user = row

\* of every signup that has passed validation and the lookup and whose email
\* is still not registered when it comes to insert
SignupLoginResolve ==
  \A w \in Workers : \A payload \in inflight[w] :
    ByEmail(users, payload.email) = {} => RoundTripFrom(payload, users, now)

(***************************************************************************)
(* C7.  As claimed: whatever the store holds, login with an email that has *)
(* no row and login with a registered email and a password other than the  *)
(* one signed up with get one and the same answer, 401 "Invalid            *)
(* credentials", and issue nothing.                                        *)
(***************************************************************************)
InvalidCredentials == HTTPException(401, "Invalid credentials")
NoLoginOracle ==
  \A payload \in LoginPayloads :
    LET l == login(payload, users, now) IN
    /\ ByEmail(users, payload.email) = {} => l.resp = InvalidCredentials /\ l.body = {}
    /\ \A u \in ByEmail(users, payload.email) :
         payload.password # u.plain => l.resp = InvalidCredentials /\ l.body = {}

(***************************************************************************)
(* C8.  Nothing but expiry retires a token: while its user is in the table *)
(* every refresh token ever issued is accepted by refresh until it         *)
(* expires, however many logins and refreshes came after it, and every     *)
(* access token ever issued resolves to its user until it expires.  The    *)
(* pair refresh returns is the user's own: its access token resolves to    *)
(* the same user and its refresh token is accepted in turn.                *)
(***************************************************************************)
RefreshKeepsTokensValid ==
  \A e \in issued :
    /\ (Holder(e) # {} /\ Unexpired(e.tokens.access_token, now)) =>
         get_current_user(e.tokens.access_token, users, now).user = Holder(e)
    /\ (Holder(e) # {} /\ Unexpired(e.tokens.refresh_token, now)) =>
         LET r == refresh(e.tokens.refresh_token, users, now) IN
         /\ r.resp.status = 200
         /\ r.user = Holder(e)
         /\ Cardinality(r.body) = 1
         /\ \A b \in r.body :
              /\ get_current_user(b.access_token, users, now).user = Holder(e)
              /\ refresh(b.refresh_token, users, now).resp.status = 200
              /\ refresh(b.refresh_token, users, now).user = Holder(e)

\* a user holds two pairs issued at different times, the later one by a
\* refresh or a login after the first; the refresh token of the earlier pair
\* is still accepted
RefreshKeepsTokensValidWitness ==
  \E e1 \in issued, e2 \in issued :
    /\ e1.uid = e2.uid
    /\ Holder(e1) # {}
    /\ e1.tokens.refresh_token.iat < e2.tokens.refresh_token.iat
    /\ refresh(e1.tokens.refresh_token, users, now).resp.status = 200
    /\ refresh(e2.tokens.refresh_token, users, now).resp.status = 200
    /\ ExpiredSignature(e1.tokens.access_token, now)

(***************************************************************************)
(* C9.  As claimed: once the users row of a user is deleted, every access  *)
(* token issued to that user is answered 401 by get_current_user and every *)
(* refresh token issued to that user is answered 401 by refresh, which     *)
(* issues nothing for it.                                                  *)
(***************************************************************************)
DeletedUserRejected ==
  \A e \in issued :
    Holder(e) = {} =>
      /\ get_current_user(e.tokens.access_token, users, now).user = {}
      /\ \A x \in get_current_user(e.tokens.access_token, users, now).err : Unauthorized(x)
      /\ Unauthorized(refresh(e.tokens.refresh_token, users, now).resp)
      /\ refresh(e.tokens.refresh_token, users, now).body = {}

(***************************************************************************)
(* C11.  As claimed: a token signed with the key, unexpired and of the     *)
(* right kind whose sub is absent, empty, not a string or not a decimal    *)
(* numeral is answered 401 by get_current_user and by                      *)
(* verify_refresh_token, never another error and never a user; and the sub *)
(* of a token issued for user id n is str(n) and parses back to n.         *)
(***************************************************************************)
NotANumeral(sub) ==
  sub.kind # "str" \/ sub.chars = <<>> \/ \E i \in 1..Len(sub.chars) : ~IsDecimalChar(sub.chars[i])
SubjectValidation ==
  /\ \A token \in CraftedTokens :
       (Unexpired(token, now) /\ NotANumeral(token.sub)) =>
         /\ token.type = "access" =>
              LET r == get_current_user(token, users, now) IN
              r.user = {} /\ r.err # {} /\ \A e \in r.err : Unauthorized(e)
         /\ token.type = "refresh" =>
              LET v == verify_refresh_token(token, now) IN
              v.err # {} /\ \A e \in v.err : Unauthorized(e)
  /\ \A n \in 1..12 :
       /\ create_access_token(n, now).sub = Str(str(n))
       /\ create_refresh_token(n, now).sub = Str(str(n))
       /\ IntParses(str(n)) /\ int(str(n)) = n
  /\ \A e \in issued : \A u \in Holder(e) :
       /\ e.tokens.access_token.sub = Str(str(u.id))
       /\ e.tokens.refresh_token.sub = Str(str(u.id))

(***************************************************************************)
(* C12.  As claimed: a password that signup accepts verifies against its   *)
(* own hash, and a password p does not verify against the hash of p        *)
(* followed by "x", so that nobody logs in with p to a user who signed up  *)
(* with p followed by "x".                                                 *)
(***************************************************************************)
PasswordRoundTrip ==
  /\ \A w \in Workers : \A payload \in inflight[w] :
       verify_password(payload.password,
                       hash_password(payload.password, created + 1)) = "true"
  /\ \A u \in users :
       /\ verify_password(u.plain, u.password_hash) = "true"
       /\ \A p \in Passwords :
            (u.plain = <<p[1], "x">> /\ p[2] = "") =>
              /\ verify_password(p, u.password_hash) = "false"
              /\ login([password |-> p, email |-> u.email], users, now).resp.status # 200

(***************************************************************************)
(* C13.  As claimed: verify_password answers false, and does not raise,    *)
(* for a stored hash that is not a recognised hash, and login to a user    *)
(* whose password_hash is such a string is answered 401 "Invalid           *)
(* credentials".                                                           *)
(***************************************************************************)
MalformedHashRejected ==
  \A u \in users :
    u.password_hash.scheme # "bcrypt" =>
      \A p \in Passwords :
        /\ verify_password(p, u.password_hash) = "false"
        /\ login([password |-> p, email |-> u.email], users, now).resp
             = HTTPException(401, "Invalid credentials")

(***************************************************************************)
(* C14.  To an authenticated user, get_note, update_note and delete_note   *)
(* answer for a note of another owner exactly what they answer when the    *)
(* notes table holds no note of that id: 404 "Note not found", nothing     *)
(* returned and nothing changed.                                           *)
(***************************************************************************)
NoteNotFound == HTTPException(404, "Note not found")
NoteExistenceHidden ==
  \A e \in issued :
    LET token == e.tokens.access_token IN
    \A B \in get_current_user(token, users, now).user : \A n \in notes :
      n.user_id # B.id =>
        LET absent == notes \ {n}
            g == get_note(n.id, token, users, notes, now)
            d == delete_note(n.id, token, users, notes, now) IN
        /\ g.resp = NoteNotFound /\ g.body = {} /\ g.notes = notes
        /\ g.resp = get_note(n.id, token, users, absent, now).resp
        /\ d.resp = NoteNotFound /\ d.body = {} /\ d.notes = notes
        /\ d.resp = delete_note(n.id, token, users, absent, now).resp
        /\ \A payload \in UpdatePayloads :
             LET u == update_note(n.id, payload, token, users, notes, now) IN
             /\ u.resp = NoteNotFound /\ u.body = {} /\ u.notes = notes
             /\ u.resp = update_note(n.id, payload, token, users, absent, now).resp

\* two users are in the table, one holds an access token that resolves and
\* the other owns a note
NoteExistenceHiddenWitness ==
  \E e \in issued : \E B \in get_current_user(e.tokens.access_token, users, now).user :
    \E n \in notes : \E A \in users :
      /\ A.id = n.user_id
      /\ A.id # B.id
      /\ get_note(n.id, e.tokens.access_token, users, notes, now).resp = NoteNotFound

(***************************************************************************)
(* C18.  As claimed: whatever signups and deletions of users rows have     *)
(* happened, a token resolves, through get_current_user and through        *)
(* refresh, to no other users row than the one it was issued for, and a    *)
(* user is not shown a note that a user of an earlier row created.         *)
(***************************************************************************)
TokenBinding ==
  /\ \A e \in issued :
       /\ get_current_user(e.tokens.access_token, users, now).user \subseteq Holder(e)
       /\ refresh(e.tokens.refresh_token, users, now).user \subseteq Holder(e)
  /\ \A e \in issued : \A n \in notes :
       (Holder(e) # {} /\ e.uid # n.creator) =>
         n \notin list_notes(Null, e.tokens.access_token, users, notes, now).body

(***************************************************************************)
(* C19.  A note carries the id of the user who created it for as long as   *)
(* that user's row exists.  create_note adds one note owned by the         *)
(* resolved user and touches no other; update_note by the owner writes the *)
(* fields the payload gives and keeps the other field, the id and the      *)
(* owner, and touches no other note; delete_note by the owner removes that *)
(* note and no other.                                                      *)
(***************************************************************************)
Updated(n, payload) ==
  [n EXCEPT !.title = IF payload.title = Null THEN n.title ELSE payload.title,
            !.content = IF payload.content = Null THEN n.content ELSE payload.content]
NoteOwnership ==
  /\ \A n \in notes : \A u \in users : u.uid = n.creator => n.user_id = u.id
  /\ \A n1 \in notes, n2 \in notes : n1.id = n2.id => n1 = n2
  /\ \A e \in issued :
       LET token == e.tokens.access_token IN
       \A user \in get_current_user(token, users, now).user :
         /\ \A payload \in [title : Titles, content : Contents] :
              LET r == create_note(payload, token, users, notes, now) IN
              /\ r.resp.status = 201
              /\ notes \subseteq r.notes
              /\ r.notes \ notes = r.body
              /\ Cardinality(r.body) = 1
              /\ \A m \in r.body :
                   /\ m.user_id = user.id /\ m.creator = user.uid
                   /\ m.title = payload.title /\ m.content = payload.content
                   /\ \A n \in notes : n.id # m.id
         /\ \A n \in notes :
              n.user_id = user.id =>
                /\ \A payload \in UpdatePayloads :
                     LET r == update_note(n.id, payload, token, users, notes, now) IN
                     /\ r.resp.status = 200
                     /\ r.body = {Updated(n, payload)}
                     /\ r.notes = (notes \ {n}) \cup {Updated(n, payload)}
                /\ LET r == delete_note(n.id, token, users, notes, now) IN
                   /\ r.resp.status = 204
                   /\ r.notes = notes \ {n}

\* two users each own a note, and one of the notes has been updated in its
\* title alone
NoteOwnershipWitness ==
  \E n1 \in notes, n2 \in notes :
    /\ n1.user_id # n2.user_id
    /\ n1.title = "u" /\ n1.content = "c"
    /\ \E e \in issued :
         \E user \in get_current_user(e.tokens.access_token, users, now).user :
           user.id = n1.user_id /\ user.uid = n1.creator

(***************************************************************************)
(* C15.  A step of login, of refresh, or of a handler that only resolves   *)
(* the user and reads leaves the users table and the notes table as they   *)
(* were, whether the request succeeds or fails; all it produces is the     *)
(* response.                                                               *)
(***************************************************************************)
AuthenticationReadOnly ==
  [][ ( \/ \E payload \in LoginPayloads : Login(payload)
        \/ \E token \in ClientTokens : Refresh(token)
        \/ \E token \in ClientTokens : ListNotes(Null, 100, 0, token) )
      => (users' = users /\ notes' = notes /\ inflight' = inflight /\ created' = created) ]_vars

\* a user has logged in and holds a refresh token that refresh accepts, and a
\* login to the same user with another password fails
AuthenticationReadOnlyWitness ==
  \E e \in issued : \E u \in Holder(e) :
    /\ refresh(e.tokens.refresh_token, users, now).resp.status = 200
    /\ get_current_user(e.tokens.access_token, users, now).user = {u}
    /\ \E payload \in LoginPayloads :
         payload.email = u.email /\ login(payload, users, now).resp.status = 401

(***************************************************************************)
(* C16.  Every pair a step issues carries iat = the clock cut to whole     *)
(* seconds in both tokens, exp = iat + 60 * ACCESS_TOKEN_EXPIRE_MINUTES in *)
(* the access token (1800 s) and exp = iat + 86400 *                       *)
(* REFRESH_TOKEN_EXPIRE_DAYS in the refresh token (604800 s), so the       *)
(* access token of a pair expires before its refresh token.                *)
(***************************************************************************)
TokenLifetimes ==
  [][ \A e \in issued' \ issued :
        LET a == e.tokens.access_token
            r == e.tokens.refresh_token IN
        /\ a.iat * 1000 <= now /\ now < (a.iat + 1) * 1000
        /\ r.iat = a.iat
        /\ a.exp = a.iat + 60 * ACCESS_TOKEN_EXPIRE_MINUTES
        /\ a.exp - a.iat = 1800
        /\ r.exp = r.iat + 86400 * REFRESH_TOKEN_EXPIRE_DAYS
        /\ r.exp - r.iat = 604800
        /\ a.exp < r.exp ]_vars

\* one pair was issued half a second into second 0 and another later
TokenLifetimesWitness ==
  \E e1 \in issued, e2 \in issued :
    /\ e1.tokens.access_token.iat = 0
    /\ e2.tokens.access_token.iat > 0
    /\ e2.tokens.refresh_token.iat > 0

(***************************************************************************)
(* C17.  A worker whose request has ended holds no open session: the       *)
(* session get_db opened for the request was closed before the request     *)
(* completed, whether the handler returned or raised 401, 404, 409, 422 or *)
(* an unexpected error.                                                    *)
(***************************************************************************)
SessionsScoped ==
  \A w \in Workers :
    (requests[w].pc = "idle" /\ inflight[w] = {}) => w \notin sessions

\* the requests of both workers have ended, one with an unexpected error and
\* the other with 409, and no session is open
SessionsScopedWitness ==
  \E w \in Workers, v \in Workers :
    /\ requests[w].pc = "idle" /\ requests[w].status = 500
    /\ requests[v].pc = "idle" /\ requests[v].status = 409
    /\ sessions = {}

====
